---- MODULE Spec2Model ----
(***************************************************************************)
(* OCR quality assessment with unigram bloom filters                       *)
(* (lib/ocrqa_bloom.py, class OcrQABloomProcessor).                        *)
(*                                                                         *)
(* Scores are floats rounded to two decimals in the source; here a score   *)
(* is the integer number of hundredths (0.62 is 62).  The slc buckets are  *)
(* kept in twentieths (counter["SL"] starts at -len/20.0), and             *)
(* single_letter_cost is given in twentieths as well (0.7 is 14).          *)
(***************************************************************************)
EXTENDS Integers, Sequences, FiniteSets, TLC

VARIABLES
    options,      \* argparse.Namespace: languages, bloomdicts, methods, ...
    ocrqa_stats,  \* self.ocrqa_stats: list of scores (hundredths)
    lang_stats,   \* self.lang_stats: defaultdict(int)
    unks,         \* self.unks: bloomdict -> Counter of unknown subtokens
    output,       \* the records run() has printed, in order
    candidates,   \* process_line: the local list results before selection
    results,      \* process_line: the list it returned for the last line
    line,         \* the last line process_line returned for: id, label,
                  \* and per configured language the subtokens and their
                  \* count
    pc,           \* position of main(): "main" before the processor is
                  \* constructed, "run" inside run(), "done" after run()
                  \* has returned, "exit1" after sys.exit(1)
    error,        \* what main() logs before sys.exit(1), "" if nothing
    report,       \* end-of-run STATS-MEANOCRAQ as <<[sum, n]>>, or <<>>
    call,         \* arguments of the score calculator under evaluation
    ret,          \* method -> value returned by the calculators for call
    base          \* the slc evaluation made before call was extended

vars == <<options, ocrqa_stats, lang_stats, unks, output, candidates,
          results, line, pc, error, report, call, ret, base>>

(***************************************************************************)
(* Bounds                                                                  *)
(***************************************************************************)
MaxLen == 3       \* longest subtoken sequence handed to a score calculator
MaxExtra == 2     \* longest out-of-vocabulary extension of a sequence
MaxDocLen == 1    \* longest subtoken sequence of a document
MaxDocs == 2      \* number of input lines of a run
MaxMethods == 2   \* longest configured method list
MinSubtokens == 1 \* the configured --min-subtokens

(***************************************************************************)
(* Vocabulary and oracles                                                  *)
(***************************************************************************)
Tokens == {"ab", "n", "x", "qq"}
DocTokens == {"ab", "x"}
AllMethods == {"slc", "unk_ratio", "unk_type_ratio"}
single_chars == {"à", "n", "d", "l"}

\* BloomFilter.open(bloomdict): the vocabulary the oracle answers for
BloomFilter(bloomdict) ==
    CASE bloomdict = "de.bloom" -> {"ab", "n", "x"}
      [] bloomdict = "fr.bloom" -> {"ab"}
      [] OTHER -> {}

SeqsUpTo(S, n) == UNION {[1..k -> S] : k \in 0..n}

RECURSIVE SumSeq(_)
SumSeq(s) == IF s = <<>> THEN 0 ELSE Head(s) + SumSeq(Tail(s))

\* the number of positions of s holding an element of T
Count(s, T) == Cardinality({k \in 1..Len(s) : s[k] \in T})

Range(s) == {s[k] : k \in 1..Len(s)}

(***************************************************************************)
(* round(num / den, 2) in hundredths, den > 0: Python rounds the quotient  *)
(* to the nearest hundredth, an exact half to the even neighbour.          *)
(***************************************************************************)
Round2(num, den) ==
    LET q == (100 * num) \div den
        r == (100 * num) % den
    IN  IF 2 * r < den THEN q
        ELSE IF 2 * r > den THEN q + 1
        ELSE IF q % 2 = 0 THEN q ELSE q + 1

(***************************************************************************)
(* Score calculators                                                       *)
(***************************************************************************)
\* the three buckets of compute_ocrqa_slc after the loop, in twentieths
SlcCounterNoOOV(subtoks_list, bf) ==
    [IV  |-> 20 * Count(subtoks_list,
                 {t \in bf : Len(t) > 1 \/ t \in single_chars}),
     SL  |-> -Len(subtoks_list)
             + options.single_letter_cost
               * Count(subtoks_list,
                 {t \in bf : ~(Len(t) > 1 \/ t \in single_chars)}),
     OOV |-> 0]

SlcCounter(subtoks_list, bf) ==
    [IV  |-> 20 * Count(subtoks_list,
                 {t \in bf : Len(t) > 1 \/ t \in single_chars}),
     SL  |-> -Len(subtoks_list)
             + options.single_letter_cost
               * Count(subtoks_list,
                 {t \in bf : ~(Len(t) > 1 \/ t \in single_chars)}),
     OOV |-> 20 * Count(subtoks_list, Range(subtoks_list) \ bf)]

\* the flooring "if counter['SL'] < 0: counter['SL'] = 0.0" left out
SlcFloorUnfloored(sl) == sl

SlcFloor(sl) == IF sl < 0 THEN 0 ELSE sl

\* the single-letter bucket left out of the sum
SlcWithoutSingleLetters(subtoks_list, bf, i) ==
    LET counter == SlcCounter(subtoks_list, bf)
        totalsub == counter.IV + counter.OOV
    IN  IF totalsub = 0 THEN 0 ELSE Round2(counter.IV, totalsub)

compute_ocrqa_slc(subtoks_list, bf, i) ==
    LET counter == SlcCounter(subtoks_list, bf)
        totalsub == counter.IV + SlcFloor(counter.SL) + counter.OOV
    IN  IF totalsub = 0 THEN 0 ELSE Round2(counter.IV, totalsub)

\* every unknown subtoken counted under the first oracle
UnksAfterSlcFirstOracle(u, subtoks_list, bf, i) ==
    [u EXCEPT ![options.bloomdicts[1]] =
        [t \in Tokens |->
            @[t] + Count(subtoks_list, {t} \ bf)]]

\* self.unks[self.options.bloomdicts[i]][subtok] += 1 for every OOV subtoken
UnksAfterSlc(u, subtoks_list, bf, i) ==
    [u EXCEPT ![options.bloomdicts[i]] =
        [t \in Tokens |->
            @[t] + Count(subtoks_list, {t} \ bf)]]

\* an empty list scored as a perfect text
UnkRatioEmptyIsOne(subtoks_list, bf) ==
    IF subtoks_list = <<>> THEN 100
    ELSE Round2(Count(subtoks_list, bf), Len(subtoks_list))

compute_ocrqa_unk_ratio(subtoks_list, bf) ==
    LET known_count == Count(subtoks_list, bf)
    IN  IF subtoks_list = <<>> THEN 0
        ELSE Round2(known_count, Len(subtoks_list))

\* the ratio taken over the occurrences, duplicates included
UnkTypeRatioOverOccurrences(subtoks_list, bf) ==
    IF subtoks_list = <<>> THEN 0
    ELSE Round2(Count(subtoks_list, bf), Len(subtoks_list))

compute_ocrqa_unk_type_ratio(subtoks_list, bf) ==
    LET unique_subtoks == Range(subtoks_list)
        known_count == Cardinality(unique_subtoks \cap bf)
    IN  IF unique_subtoks = {} THEN 0
        ELSE Round2(known_count, Cardinality(unique_subtoks))

(***************************************************************************)
(* Configuration (parse_arguments) and input lines                         *)
(***************************************************************************)
NoLabel == ""          \* lang_ident_data absent, or no label for the id
NoMethod == "None"     \* keep_best_method = None

Labels == {NoLabel, "de", "fr", "it"}

\* method lists accepted by --methods, without repetitions
MethodLists ==
    {m \in SeqsUpTo(AllMethods, MaxMethods) :
        Len(m) >= 1 /\ \A j, k \in 1..Len(m) : j # k => m[j] # m[k]}

LanguageConfigs ==
    {[languages |-> <<"de">>, bloomdicts |-> <<"de.bloom">>],
     [languages |-> <<"de", "fr">>, bloomdicts |-> <<"de.bloom", "fr.bloom">>]}

MkOptions(lc, methods, keep_best, min_subtokens, single_letter_cost) ==
    [languages |-> lc.languages, bloomdicts |-> lc.bloomdicts,
     methods |-> methods, keep_best |-> keep_best,
     min_subtokens |-> min_subtokens,
     min_subtoken_length |-> 1,
     single_letter_cost |-> single_letter_cost]

Configs ==
    {MkOptions(lc, m, kb, ms, 14) :
        lc \in LanguageConfigs, m \in MethodLists,
        kb \in BOOLEAN, ms \in {MinSubtokens}}

\* command lines main() or __init__ refuse: no --bloomdicts, lists of
\* different lengths, --min-subtoken-length below 1
FatalConfigs ==
    {[MkOptions(lc, <<"slc">>, FALSE, MinSubtokens, 14)
        EXCEPT !.min_subtoken_length = msl] :
        lc \in {[languages |-> <<"de">>, bloomdicts |-> <<>>],
                [languages |-> <<>>, bloomdicts |-> <<>>],
                [languages |-> <<"de", "fr">>, bloomdicts |-> <<"de.bloom">>],
                [languages |-> <<"de">>,
                 bloomdicts |-> <<"de.bloom", "fr.bloom">>]},
        msl \in {0, 1}}
    \cup
    {[MkOptions(lc, <<"slc">>, FALSE, MinSubtokens, 14)
        EXCEPT !.min_subtoken_length = msl] :
        lc \in LanguageConfigs, msl \in {-1, 0}}

\* configurations of the score calculator runs: the cost varies
ScoreConfigs ==
    {MkOptions(lc, <<"slc", "unk_ratio", "unk_type_ratio">>, FALSE, 0, c) :
        lc \in {x \in LanguageConfigs : Len(x.languages) = 2},
        c \in {0, 14, 40}}

LangSet(opts) == {opts.languages[k] : k \in 1..Len(opts.languages)}

\* An input line: its id, the label lang_ident_data holds for the id, and
\* what subtokens(ft, language=l) yields for each configured language l.
\* Languages process_line never tokenizes for the line carry <<>>.
Lines(opts, id) ==
    {[id |-> id, lg |-> lg, subtokens |-> st] :
        lg \in Labels,
        st \in [LangSet(opts) -> SeqsUpTo(DocTokens, MaxDocLen)]}

Consulted(opts, ln, l) ==
    IF ln.lg = NoLabel THEN TRUE ELSE l = ln.lg

InputLines(opts, id) ==
    {ln \in Lines(opts, id) :
        \A l \in LangSet(opts) :
            ~Consulted(opts, ln, l) => ln.subtokens[l] = <<>>}

\* list.index(x)
RECURSIVE IndexFrom(_, _, _)
IndexFrom(s, x, k) ==
    IF k > Len(s) THEN 0 ELSE IF s[k] = x THEN k ELSE IndexFrom(s, x, k + 1)

index(s, x) == IndexFrom(s, x, 1)

InList(s, x) == \E k \in 1..Len(s) : s[k] = x

(***************************************************************************)
(* get_subtokens, compute_results                                          *)
(***************************************************************************)
get_subtokens(ln, language) ==
    [id |-> ln.id, subtokens |-> ln.subtokens[language]]

Field(method) == "ocrqa_" \o method

ResultFields(methods) ==
    {"ci_id", "lg", "ocrqa", "bloom", "subtokens"}
        \cup {Field(methods[k]) : k \in 1..Len(methods)}

\* a later candidate replaces the best one on an equal score as well
BetterOrEqual(value, best_ocrqa_value) == value >= best_ocrqa_value

\* "ocrqa_<m> > best_ocrqa_value"
Better(value, best_ocrqa_value) == value > best_ocrqa_value

\* "ocrqa" taken by the precedence slc, unk_ratio, unk_type_ratio
PreferredMethodScore(methods, slc, unk_ratio, unk_type_ratio) ==
    IF InList(methods, "slc") THEN slc
    ELSE IF InList(methods, "unk_ratio") THEN unk_ratio
    ELSE unk_type_ratio

\* "Store the value of the first method in --methods as ocrqa"
FirstMethodScore(methods, slc, unk_ratio, unk_type_ratio) ==
    LET first_method == methods[1]
    IN  CASE first_method = "slc" -> slc
          [] first_method = "unk_ratio" -> unk_ratio
          [] first_method = "unk_type_ratio" -> unk_type_ratio

\* st is the running state of process_line that compute_results reads and
\* writes.  Of the record, the fields timestamp, git_version,
\* subtoken_char_ratio and the verbose unk_freq are left out: no score,
\* selection or statistic depends on them.
\* best_result_index counts from 0 as in the source, -1 for none
compute_results(st, subtoks_info, bf, lang, lang_index, keep_best_method) ==
    LET methods == options.methods
        subtoks_list == subtoks_info.subtokens
        ocrqa_slc == compute_ocrqa_slc(subtoks_list, bf, lang_index)
        ocrqa_unk_ratio == compute_ocrqa_unk_ratio(subtoks_list, bf)
        ocrqa_unk_type_ratio == compute_ocrqa_unk_type_ratio(subtoks_list, bf)
        b0 == [v |-> st.best_ocrqa_value, i |-> st.best_result_index]
        b1 == IF InList(methods, "slc") /\ keep_best_method = "slc"
                 /\ Better(ocrqa_slc, b0.v)
              THEN [v |-> ocrqa_slc, i |-> Len(st.results)] ELSE b0
        b2 == IF InList(methods, "unk_ratio") /\ keep_best_method = "unk_ratio"
                 /\ Better(ocrqa_unk_ratio, b1.v)
              THEN [v |-> ocrqa_unk_ratio, i |-> Len(st.results)] ELSE b1
        b3 == IF InList(methods, "unk_type_ratio")
                 /\ keep_best_method = "unk_type_ratio"
                 /\ Better(ocrqa_unk_type_ratio, b2.v)
              THEN [v |-> ocrqa_unk_type_ratio, i |-> Len(st.results)] ELSE b2
        result ==
            [f \in ResultFields(methods) |->
                CASE f = "ci_id" -> subtoks_info.id
                  [] f = "lg" -> lang
                  [] f = "bloom" -> options.bloomdicts[lang_index]
                  [] f = "subtokens" -> Len(subtoks_list)
                  [] f = "ocrqa_slc" -> ocrqa_slc
                  [] f = "ocrqa_unk_ratio" -> ocrqa_unk_ratio
                  [] f = "ocrqa_unk_type_ratio" -> ocrqa_unk_type_ratio
                  [] f = "ocrqa" ->
                        FirstMethodScore(methods, ocrqa_slc, ocrqa_unk_ratio,
                                         ocrqa_unk_type_ratio)]
    IN  [result |-> result,
         best_ocrqa_value |-> b3.v,
         best_result_index |-> b3.i,
         ocrqa_stats |->
            IF InList(methods, "slc") THEN Append(st.ocrqa_stats, ocrqa_slc)
            ELSE st.ocrqa_stats,
         unks |->
            IF InList(methods, "slc")
            THEN UnksAfterSlc(st.unks, subtoks_list, bf, lang_index)
            ELSE st.unks]

(***************************************************************************)
(* process_line                                                            *)
(***************************************************************************)
\* the skipped document counted under the language itself
MissingKeyPlain(lang) == lang

MissingKey(lang) == "missing-dict-for-" \o lang

\* the keys lang_stats can come to hold: languages and missing-dict counters
StatKeys ==
    (Labels \ {NoLabel})
        \cup {"missing-dict-for-" \o l : l \in Labels \ {NoLabel}}

\* the single-method case forgotten
KeepBestOnlyOnRequest == options.keep_best

\* the best record kept whatever the configuration
KeepBestAlways == TRUE

\* best-selection: "self.options.keep_best or len(self.methods) == 1"
KeepBestActive == options.keep_best \/ Len(options.methods) = 1

\* the language counted before the gate on min_subtokens
TrialCountingSkipped(st, ln, lang_index, keep_best_method) ==
    LET lang == options.languages[lang_index]
        bf == BloomFilter(options.bloomdicts[lang_index])
        subtoks_info == get_subtokens(ln, lang)
        subtoks_list == subtoks_info.subtokens
        cr == compute_results(st, subtoks_info, bf, lang, lang_index,
                              keep_best_method)
    IN  IF Len(subtoks_list) < options.min_subtokens
        THEN [st EXCEPT !.lang_stats[lang] = @ + 1]
        ELSE [results |-> Append(st.results, cr.result),
              best_ocrqa_value |-> cr.best_ocrqa_value,
              best_result_index |-> cr.best_result_index,
              ocrqa_stats |-> cr.ocrqa_stats,
              unks |-> cr.unks,
              lang_stats |-> [st.lang_stats EXCEPT ![lang] = @ + 1]]

\* one pass of "subtokenize, gate on min_subtokens, compute_results,
\* count the language, append" for the language at lang_index
Trial(st, ln, lang_index, keep_best_method) ==
    LET lang == options.languages[lang_index]
        bf == BloomFilter(options.bloomdicts[lang_index])
        subtoks_info == get_subtokens(ln, lang)
        subtoks_list == subtoks_info.subtokens
        cr == compute_results(st, subtoks_info, bf, lang, lang_index,
                              keep_best_method)
    IN  IF Len(subtoks_list) < options.min_subtokens THEN st
        ELSE [results |-> Append(st.results, cr.result),
              best_ocrqa_value |-> cr.best_ocrqa_value,
              best_result_index |-> cr.best_result_index,
              ocrqa_stats |-> cr.ocrqa_stats,
              unks |-> cr.unks,
              lang_stats |-> [st.lang_stats EXCEPT ![lang] = @ + 1]]

\* the loop over the pairs left at the first pair below min_subtokens
RECURSIVE AllTrialsStopAtFirstSkip(_, _, _, _)
AllTrialsStopAtFirstSkip(st, ln, k, keep_best_method) ==
    IF k > Len(options.bloomdicts) THEN st
    ELSE IF Len(get_subtokens(ln, options.languages[k]).subtokens)
                < options.min_subtokens
    THEN st
    ELSE AllTrialsStopAtFirstSkip(Trial(st, ln, k, keep_best_method), ln,
                                  k + 1, keep_best_method)

\* "for lang_index, bf in enumerate(self.bloom_filters)" from index k on
RECURSIVE AllTrials(_, _, _, _)
AllTrials(st, ln, k, keep_best_method) ==
    IF k > Len(options.bloomdicts) THEN st
    ELSE AllTrials(Trial(st, ln, k, keep_best_method), ln, k + 1,
                   keep_best_method)

\* the score the closing block of process_line appends for a record
StatOf(result) ==
    IF "ocrqa_slc" \in DOMAIN result THEN <<result.ocrqa_slc>>
    ELSE IF "ocrqa_unk_ratio" \in DOMAIN result THEN <<result.ocrqa_unk_ratio>>
    ELSE IF "ocrqa_unk_type_ratio" \in DOMAIN result
         THEN <<result.ocrqa_unk_type_ratio>>
    ELSE <<>>

RECURSIVE StatsOfAll(_)
StatsOfAll(rs) ==
    IF rs = <<>> THEN <<>> ELSE StatOf(Head(rs)) \o StatsOfAll(Tail(rs))

\* the closing block: keep the best record or all of them, append the stats
Select(st) ==
    IF KeepBestActive /\ st.best_result_index # -1
    THEN LET best_result == st.results[st.best_result_index + 1]
         IN  [results |-> <<best_result>>,
              candidates |-> st.results,
              ocrqa_stats |-> st.ocrqa_stats \o StatOf(best_result),
              unks |-> st.unks,
              lang_stats |-> st.lang_stats]
    ELSE [results |-> st.results,
          candidates |-> st.results,
          ocrqa_stats |-> st.ocrqa_stats \o StatsOfAll(st.results),
          unks |-> st.unks,
          lang_stats |-> st.lang_stats]

\* process_line on a processor whose statistics are self_ocrqa_stats,
\* self_unks and self_lang_stats when the line arrives
ProcessLineOn(ln, self_ocrqa_stats, self_unks, self_lang_stats) ==
    LET lang == ln.lg
        keep_best_method ==
            IF KeepBestActive THEN options.methods[1] ELSE NoMethod
        st0 == [results |-> <<>>,
                best_ocrqa_value |-> -100,
                best_result_index |-> -1,
                ocrqa_stats |-> self_ocrqa_stats,
                unks |-> self_unks,
                lang_stats |-> self_lang_stats]
        returned(ls) == [results |-> <<>>, candidates |-> <<>>,
                         ocrqa_stats |-> self_ocrqa_stats,
                         unks |-> self_unks,
                         lang_stats |-> ls]
    IN  IF lang # NoLabel
        THEN IF ~InList(options.languages, lang)
             THEN returned([self_lang_stats
                                EXCEPT ![MissingKey(lang)] = @ + 1])
             ELSE IF Len(get_subtokens(ln, lang).subtokens)
                        < options.min_subtokens
             THEN returned(self_lang_stats)
             ELSE Select(Trial(st0, ln, index(options.languages, lang),
                               keep_best_method))
        ELSE Select(AllTrials(st0, ln, 1, keep_best_method))

process_line(ln) == ProcessLineOn(ln, ocrqa_stats, unks, lang_stats)

(***************************************************************************)
(* run                                                                     *)
(***************************************************************************)
NoLine == [id |-> 0, lg |-> NoLabel, subtokens |-> <<>>, count |-> <<>>]

\* what is remembered of a line once process_line has returned
LineInfo(ln) ==
    [id |-> ln.id, lg |-> ln.lg, subtokens |-> ln.subtokens,
     count |-> [l \in DOMAIN ln.subtokens |-> Len(ln.subtokens[l])]]
NoCall == [subtoks_list |-> <<>>, i |-> 1]
NoRet == [m \in AllMethods |-> {}]

InitProcessor(opts) ==
    /\ options = opts
    /\ ocrqa_stats = <<>>
    /\ lang_stats = [k \in StatKeys |-> 0]
    /\ unks = [b \in {opts.bloomdicts[k] : k \in 1..Len(opts.bloomdicts)} |->
                  [t \in Tokens |-> 0]]
    /\ output = <<>>
    /\ candidates = <<>>
    /\ results = <<>>
    /\ line = NoLine
    /\ error = ""
    /\ report = <<>>

\* --min-subtoken-length never validated
InitErrorLengthUnchecked(opts) ==
    IF opts.bloomdicts = <<>>
    THEN "WARNING: No bloom dictionaries provided; cannot perform OCR QA"
    ELSE IF Len(opts.bloomdicts) # Len(opts.languages)
    THEN "The number of bloom dictionaries must match the number of languages."
    ELSE ""

\* the check of main() and the checks of __init__, in the order they are
\* made: the message logged before sys.exit(1), "" when the processor is
\* constructed
InitError(opts) ==
    IF opts.bloomdicts = <<>>
    THEN "WARNING: No bloom dictionaries provided; cannot perform OCR QA"
    ELSE IF Len(opts.bloomdicts) # Len(opts.languages)
    THEN "The number of bloom dictionaries must match the number of languages."
    ELSE IF opts.min_subtoken_length < 1
    THEN "min_subtoken_length must be at least 1"
    ELSE ""

\* main() has parsed the command line; the statistics the processor will
\* hold are shown as they are once __init__ has set them
Init ==
    /\ \E opts \in Configs \cup FatalConfigs : InitProcessor(opts)
    /\ pc = "main"
    /\ call = NoCall
    /\ ret = NoRet
    /\ base = <<>>

\* main() up to the call of run(): "if not options.bloomdicts", then the
\* constructor, whose ValueError main() catches, logs and turns into
\* sys.exit(1)
Main ==
    /\ pc = "main"
    /\ error' = InitError(options)
    /\ pc' = IF InitError(options) = "" THEN "run" ELSE "exit1"
    /\ UNCHANGED <<options, ocrqa_stats, lang_stats, unks, output, candidates,
                   results, line, report, call, ret, base>>

\* the exception json.loads(line) raises on a line that is not JSON
JSONDecodeError == "JSONDecodeError"

\* the records of a line written ahead of what was printed before
print_results_ahead(out, rs) == rs \o out

\* print(json.dumps(result), file=output_file) for each result, in order
print_results(out, rs) == out \o rs

\* one iteration of "for line in f": process_line, then print its records.
\* parses tells whether json.loads(line) at the head of process_line
\* succeeds; if not, the exception leaves process_line and run(), no
\* handler being in the way, and main() logs it and calls sys.exit(1).
RunLine ==
    /\ pc = "run"
    /\ line.id < MaxDocs
    /\ \E parses \in BOOLEAN :
        IF parses
        THEN /\ \E ln \in InputLines(options, line.id + 1) :
                    \E r \in {process_line(ln)} :
                        /\ line' = LineInfo(ln)
                        /\ candidates' = r.candidates
                        /\ results' = r.results
                        /\ ocrqa_stats' = r.ocrqa_stats
                        /\ unks' = r.unks
                        /\ lang_stats' = r.lang_stats
                        /\ output' = print_results(output, r.results)
             /\ UNCHANGED <<pc, error>>
        ELSE /\ pc' = "exit1"
             /\ error' = JSONDecodeError
             /\ UNCHANGED <<ocrqa_stats, lang_stats, unks, output,
                            candidates, results, line>>
    /\ UNCHANGED <<options, report, call, ret, base>>

\* end of input: the STATS-MEANOCRAQ report
RunFinish ==
    /\ pc = "run"
    /\ pc' = "done"
    /\ report' = IF Len(ocrqa_stats) > 0
                 THEN <<[sum |-> SumSeq(ocrqa_stats), n |-> Len(ocrqa_stats)]>>
                 ELSE <<>>
    /\ UNCHANGED <<options, ocrqa_stats, lang_stats, unks, output, candidates,
                   results, line, error, call, ret, base>>

Next == Main \/ RunLine \/ RunFinish

Spec == Init /\ [][Next]_vars

(***************************************************************************)
(* The score calculators on their own: each is applied to the arguments    *)
(* in call; the sequence may then be extended by subtokens the oracle does *)
(* not know and scored again.                                              *)
(***************************************************************************)
ScoreInit ==
    /\ \E opts \in ScoreConfigs : InitProcessor(opts)
    /\ pc = "run"
    /\ call \in [subtoks_list : SeqsUpTo(Tokens, MaxLen),
                 i : 1..2]
    /\ ret = NoRet
    /\ base = <<>>

CallBf == BloomFilter(options.bloomdicts[call.i])

ScoreSlc ==
    /\ ret["slc"] = {}
    /\ ret' = [ret EXCEPT
                 !["slc"] = {compute_ocrqa_slc(call.subtoks_list, CallBf,
                                               call.i)}]
    /\ unks' = UnksAfterSlc(unks, call.subtoks_list, CallBf, call.i)
    /\ UNCHANGED <<options, ocrqa_stats, lang_stats, output, candidates,
                   results, line, pc, error, report, call, base>>

ScoreUnkRatio ==
    /\ ret["unk_ratio"] = {}
    /\ ret' = [ret EXCEPT
                 !["unk_ratio"] =
                    {compute_ocrqa_unk_ratio(call.subtoks_list, CallBf)}]
    /\ UNCHANGED <<options, ocrqa_stats, lang_stats, unks, output, candidates,
                   results, line, pc, error, report, call, base>>

ScoreUnkTypeRatio ==
    /\ ret["unk_type_ratio"] = {}
    /\ ret' = [ret EXCEPT
                 !["unk_type_ratio"] =
                    {compute_ocrqa_unk_type_ratio(call.subtoks_list, CallBf)}]
    /\ UNCHANGED <<options, ocrqa_stats, lang_stats, unks, output, candidates,
                   results, line, pc, error, report, call, base>>

\* the scored sequence followed by subtokens not found in the oracle
ExtendOOV ==
    /\ base = <<>>
    /\ \A m \in AllMethods : ret[m] # {}
    /\ \E X \in SeqsUpTo(Tokens \ CallBf, MaxExtra) :
        /\ X # <<>>
        /\ call' = [call EXCEPT !.subtoks_list = @ \o X]
    /\ base' = <<[subtoks_list |-> call.subtoks_list, ret |-> ret]>>
    /\ ret' = NoRet
    /\ UNCHANGED <<options, ocrqa_stats, lang_stats, unks, output, candidates,
                   results, line, pc, error, report>>

ScoreNext == ScoreSlc \/ ScoreUnkRatio \/ ScoreUnkTypeRatio \/ ExtendOOV

ScoreSpec == ScoreInit /\ [][ScoreNext]_vars

(***************************************************************************)
(* Vocabulary of the properties                                            *)
(***************************************************************************)
CfgLangs == {options.languages[k] : k \in 1..Len(options.languages)}

BestSelection == options.keep_best \/ Len(options.methods) = 1

Processed == line.id > 0

Unmapped == Processed /\ line.lg # "" /\ line.lg \notin CfgLangs

\* the languages process_line tries for the last line
TriedLangs ==
    IF ~Processed THEN {}
    ELSE IF line.lg = "" THEN CfgLangs
    ELSE IF line.lg \in CfgLangs THEN {line.lg}
    ELSE {}

Meeting == {l \in TriedLangs : line.count[l] >= options.min_subtokens}

\* the tried languages meeting min_subtokens, in configured order
RECURSIVE MeetingFrom(_)
MeetingFrom(k) ==
    IF k > Len(options.languages) THEN <<>>
    ELSE (IF options.languages[k] \in Meeting
          THEN <<options.languages[k]>> ELSE <<>>) \o MeetingFrom(k + 1)

\* aggregate_score: the score of methods[0]
Agg(r) == r["ocrqa_" \o options.methods[1]]

OfLine(rs) == {k \in 1..Len(rs) : rs[k].ci_id = line.id}

EmittedFor(l) == Cardinality({k \in 1..Len(output) : output[k].lg = l})

RECURSIVE SumOcrqa(_)
SumOcrqa(rs) == IF rs = <<>> THEN 0 ELSE Head(rs).ocrqa + SumOcrqa(Tail(rs))

(***************************************************************************)
(* C1: with best-selection active (keep_best, or exactly one method) the   *)
(* single record process_line emits is the candidate with the maximal      *)
(* aggregate score among the candidates of the document, the earliest one  *)
(* when several share the maximum; no other candidate is emitted.          *)
(***************************************************************************)
C1_BestIsEarliestMax ==
    (Processed /\ BestSelection /\ candidates # <<>>) =>
        \E k \in 1..Len(candidates) :
            /\ \A j \in 1..Len(candidates) :
                    Agg(candidates[j]) <= Agg(candidates[k])
            /\ \A j \in 1..(k - 1) : Agg(candidates[j]) < Agg(candidates[k])
            /\ results = <<candidates[k]>>
            /\ Cardinality(OfLine(output)) = 1
            /\ output[Len(output)] = candidates[k]

C1_Witness ==
    /\ Processed /\ BestSelection /\ line.lg = ""
    /\ Len(candidates) = 2
    /\ Agg(candidates[1]) = Agg(candidates[2])
    /\ candidates[1].lg = "de"
    /\ results = <<candidates[1]>>

(***************************************************************************)
(* C2: best-selection is active exactly when keep_best is set or exactly   *)
(* one method is configured; when active, every processed document (label  *)
(* absent or configured, at least one trial meeting min_subtokens) yields  *)
(* exactly one record, whatever the number of languages and the label;     *)
(* when not active, one record per trial meeting min_subtokens.            *)
(***************************************************************************)
C2_OneRecordWhenActive ==
    Processed =>
        /\ (BestSelection /\ Meeting # {}) =>
                Len(results) = 1 /\ Cardinality(OfLine(output)) = 1
        /\ ~BestSelection =>
                Len(results) = Cardinality(Meeting)
                    /\ Cardinality(OfLine(output)) = Cardinality(Meeting)

C2_Witness ==
    /\ Processed /\ Len(options.methods) = 1 /\ ~options.keep_best
    /\ Cardinality(Meeting) = 2
    /\ Len(candidates) = 2
    /\ Len(results) = 1

(***************************************************************************)
(* C3: with best-selection inactive (keep_best false, two or more          *)
(* methods) process_line emits every candidate unchanged, in configured    *)
(* language order: for an unlabeled document one record per configured     *)
(* (language, oracle) pair whose subtoken count meets min_subtokens, each  *)
(* with its own lg, oracle, subtoken count and ocrqa.                      *)
(***************************************************************************)
C3_AllCandidatesWhenInactive ==
    (Processed /\ ~options.keep_best /\ Len(options.methods) >= 2) =>
        /\ results = candidates
        /\ line.lg = "" =>
            LET ls == MeetingFrom(1)
            IN  /\ Len(results) = Len(ls)
                /\ \A k \in 1..Len(ls) :
                    /\ results[k].lg = ls[k]
                    /\ results[k].ci_id = line.id
                    /\ results[k].subtokens = line.count[ls[k]]
                    /\ \E j \in 1..Len(options.languages) :
                            /\ options.languages[j] = ls[k]
                            /\ results[k].bloom = options.bloomdicts[j]
                    /\ results[k].ocrqa = Agg(candidates[k])
                    /\ output[Len(output) - Len(ls) + k] = candidates[k]

C3_Witness ==
    /\ Processed /\ ~options.keep_best /\ Len(options.methods) >= 2
    /\ line.lg = ""
    /\ Len(results) = 2
    /\ results[1].lg = "de" /\ results[2].lg = "fr"
    /\ results[1].ocrqa # results[2].ocrqa

(***************************************************************************)
(* C4: in every record compute_results produces, ocrqa equals the field    *)
(* ocrqa_<m> of the first configured method m, and the record has exactly  *)
(* one ocrqa_<method> field per configured method.                         *)
(***************************************************************************)
RecordOk(r) ==
    /\ r.ocrqa = r["ocrqa_" \o options.methods[1]]
    /\ DOMAIN r \ {"ci_id", "lg", "ocrqa", "bloom", "subtokens"}
            = {"ocrqa_" \o options.methods[k] : k \in 1..Len(options.methods)}

C4_OcrqaIsFirstMethod ==
    /\ \A k \in 1..Len(candidates) : RecordOk(candidates[k])
    /\ \A k \in 1..Len(output) : RecordOk(output[k])

C4_Witness ==
    /\ Len(options.methods) = 2
    /\ options.methods[1] = "unk_ratio" /\ options.methods[2] = "slc"
    /\ \E k \in 1..Len(candidates) :
        /\ candidates[k].ocrqa_slc # candidates[k].ocrqa_unk_ratio
        /\ candidates[k].ocrqa = candidates[k].ocrqa_unk_ratio

(***************************************************************************)
(* C5: the corpus mean reported at the end of run is the arithmetic mean   *)
(* of the ocrqa values of exactly the emitted records, each counted once,  *)
(* discarded candidates not at all (no report when nothing was emitted).   *)
(* Means are compared by cross-multiplication.                             *)
(***************************************************************************)
C5_MeanOfEmitted ==
    pc = "done" =>
        /\ (output = <<>>) <=> (report = <<>>)
        /\ report # <<>> =>
                report[1].sum * Len(output) = SumOcrqa(output) * report[1].n

(***************************************************************************)
(* C6 as claimed: for every configured language L, lang_stats[L] is the    *)
(* number of emitted records whose lg is L.                                *)
(***************************************************************************)
C6_CountsEmitted ==
    \A l \in CfgLangs : lang_stats[l] = EmittedFor(l)

(***************************************************************************)
(* C6 amended: every line adds to lang_stats[L], for each configured       *)
(* language L, the number of candidates it produced for L (trials against  *)
(* L that met min_subtokens), emitted or discarded; nothing else changes   *)
(* the counter, which is therefore never below the emitted count.          *)
(***************************************************************************)
CandidatesFor(rs, l) == Cardinality({k \in 1..Len(rs) : rs[k].lg = l})

C6_CountsCandidates ==
    [][/\ line'.id # line.id =>
            \A l \in CfgLangs :
                /\ lang_stats'[l]
                        = lang_stats[l] + CandidatesFor(candidates', l)
                /\ CandidatesFor(candidates', l)
                        = IF l \in {x \in TriedLangs' :
                                    line'.count[x] >= options.min_subtokens}
                          THEN 1 ELSE 0
       /\ line'.id = line.id =>
            \A l \in CfgLangs : lang_stats'[l] = lang_stats[l]]_vars

C6_Witness ==
    /\ Processed /\ BestSelection
    /\ Len(candidates) = 2 /\ Len(results) = 1
    /\ results[1].lg = "de"
    /\ lang_stats["fr"] > EmittedFor("fr")

(***************************************************************************)
(* C7: a line whose label is not a configured language yields no record,   *)
(* adds one to missing-dict-for-<label> and leaves the score statistics,   *)
(* the unknown-token counters, the output and every other lang_stats       *)
(* entry unchanged.                                                        *)
(***************************************************************************)
C7_UnmappedLabelSkipped ==
    [][(line'.id # line.id /\ line'.lg # "" /\ line'.lg \notin CfgLangs) =>
            /\ results' = <<>>
            /\ candidates' = <<>>
            /\ output' = output
            /\ ocrqa_stats' = ocrqa_stats
            /\ unks' = unks
            /\ lang_stats'["missing-dict-for-" \o line'.lg]
                    = lang_stats["missing-dict-for-" \o line'.lg] + 1
            /\ \A k \in DOMAIN lang_stats :
                    k # "missing-dict-for-" \o line'.lg =>
                        lang_stats'[k] = lang_stats[k]]_vars

C7_Witness ==
    /\ Unmapped /\ line.lg = "it" /\ line.id = 2
    /\ results = <<>>
    /\ output # <<>> /\ ocrqa_stats # <<>>
    /\ lang_stats["missing-dict-for-it"] = 1

(***************************************************************************)
(* C8: on every subtoken sequence, oracle and single_letter_cost >= 0,     *)
(* each of the three calculators returns a value in [0,1], and 0.0 on the  *)
(* empty sequence.                                                         *)
(***************************************************************************)
C8_ScoresInUnitInterval ==
    \A m \in AllMethods : \A v \in ret[m] :
        /\ 0 <= v /\ v <= 100
        /\ call.subtoks_list = <<>> => v = 0

C8_Witness ==
    /\ call.subtoks_list = <<"ab", "x", "qq">> /\ call.i = 1
    /\ options.single_letter_cost = 14
    /\ ret["slc"] = {39} /\ ret["unk_ratio"] = {67}
    /\ ret["unk_type_ratio"] = {67}

(***************************************************************************)
(* C9 as claimed: each score is 0.0 exactly when the subtoken sequence     *)
(* (its set of unique subtokens for unk_type_ratio) is empty.              *)
(***************************************************************************)
C9_ZeroIffEmpty ==
    \A m \in AllMethods : \A v \in ret[m] :
        (v = 0) <=> (call.subtoks_list = <<>>)

(***************************************************************************)
(* C9 amended: each score is 0.0 when the subtoken sequence is empty, and  *)
(* also when it is not empty but none of its subtokens is found in the     *)
(* oracle; a score of 0.0 does not imply an empty sequence.                *)
(***************************************************************************)
C9_ZeroWhenNothingKnown ==
    (\A k \in 1..Len(call.subtoks_list) :
            call.subtoks_list[k] \notin BloomFilter(options.bloomdicts[call.i]))
        => \A m \in AllMethods : \A v \in ret[m] : v = 0

C9_Witness ==
    /\ call.subtoks_list = <<"qq", "x">> /\ call.i = 2
    /\ \A m \in AllMethods : ret[m] = {0}

(***************************************************************************)
(* C10: slc never increases when subtokens not found in the oracle are     *)
(* appended to the sequence, for any sequence, oracle and cost, although   *)
(* the longer sequence also starts from a lower single-letter budget.      *)
(***************************************************************************)
C10_SlcMonotone ==
    base # <<>> =>
        \A v \in ret["slc"] : \A b \in base[1].ret["slc"] : v <= b

C10_Witness ==
    /\ base # <<>>
    /\ base[1].subtoks_list = <<"ab", "x">> /\ call.i = 1
    /\ options.single_letter_cost = 14
    /\ base[1].ret["slc"] = {62}
    /\ call.subtoks_list = <<"ab", "x", "qq">>
    /\ ret["slc"] = {39}

(***************************************************************************)
(* C11: a malformed (unparseable) input line is skipped and never fatal    *)
(* to the batch: once json.loads has failed on a line, run is still        *)
(* reading the following lines or has reached the end-of-run report; it    *)
(* has not been left through sys.exit(1).                                  *)
(***************************************************************************)
C11_MalformedLineSkipped ==
    error = "JSONDecodeError" => pc \in {"run", "done"}

(***************************************************************************)
(* C12: under each fatal configuration error (no oracle, language and      *)
(* oracle lists of different lengths, min_subtoken_length < 1) main never  *)
(* gets into run: it is about to construct the processor or has left      *)
(* through sys.exit(1) with the error logged; no line has been processed,  *)
(* no record emitted, no statistic updated and nothing reported.           *)
(***************************************************************************)
C12_FatalConfigAborts ==
    (\/ options.bloomdicts = <<>>
     \/ Len(options.bloomdicts) # Len(options.languages)
     \/ options.min_subtoken_length < 1) =>
        /\ pc \in {"main", "exit1"}
        /\ pc = "exit1" => error \notin {"", "JSONDecodeError"}
        /\ line.id = 0
        /\ output = <<>> /\ candidates = <<>> /\ results = <<>>
        /\ ocrqa_stats = <<>> /\ report = <<>>
        /\ \A k \in DOMAIN lang_stats : lang_stats[k] = 0
        /\ \A b \in DOMAIN unks : \A t \in DOMAIN unks[b] : unks[b][t] = 0

C12_Witness ==
    /\ pc = "exit1"
    /\ options.min_subtoken_length = 0
    /\ options.languages = <<"de", "fr">>
    /\ options.bloomdicts = <<"de.bloom", "fr.bloom">>
    /\ error = "min_subtoken_length must be at least 1"
    /\ output = <<>> /\ ocrqa_stats = <<>>

(***************************************************************************)
(* C13: run is an order-preserving map over the lines: every processed     *)
(* line appends the records process_line yields for it to the output, and  *)
(* nothing else changes the output; the records yielded for a line are     *)
(* those a processor with empty statistics yields for the same line, so    *)
(* they depend on the line and the configuration alone, not on the lines   *)
(* processed before nor on the accumulated statistics.                     *)
(***************************************************************************)
C13_OrderPreservingMap ==
    [][/\ line'.id # line.id =>
            /\ output' = output \o results'
            /\ results' =
                  ProcessLineOn(line', <<>>,
                                [b \in DOMAIN unks |-> [t \in Tokens |-> 0]],
                                [k \in DOMAIN lang_stats |-> 0]).results
       /\ line'.id = line.id => output' = output]_vars

C13_Witness ==
    /\ line.id = 2
    /\ Len(output) = 4 /\ Len(results) = 2
    /\ output[1].ci_id = 1 /\ output[2].ci_id = 1
    /\ output[3] = results[1] /\ output[4] = results[2]
    /\ results[1].ci_id = 2
    /\ unks["fr.bloom"]["x"] = 2
    /\ Len(ocrqa_stats) > 4

(***************************************************************************)
(* C14: the candidates process_line produces for a line are exactly: for   *)
(* a line labelled with a configured language, one candidate scored        *)
(* against the oracle at the position of that language if its subtoken     *)
(* count is at least min_subtokens, none otherwise; for a line without     *)
(* label, one candidate per configured (language, oracle) pair whose       *)
(* subtoken count is at least min_subtokens, in configured order, a pair   *)
(* below the minimum not stopping the pairs after it.  The number of       *)
(* candidates lies between 0 and the number of configured languages.       *)
(***************************************************************************)
CandidateOfPair(c, j) ==
    /\ c.ci_id = line.id
    /\ c.lg = options.languages[j]
    /\ c.bloom = options.bloomdicts[j]
    /\ c.subtokens = Len(line.subtokens[options.languages[j]])
    /\ "ocrqa_unk_ratio" \in DOMAIN c =>
            LET toks == line.subtokens[options.languages[j]]
                known == {p \in 1..Len(toks) :
                            toks[p] \in BloomFilter(options.bloomdicts[j])}
            IN  c.ocrqa_unk_ratio = Round2(Cardinality(known), Len(toks))

C14_CandidateSet ==
    Processed =>
        LET pairs == {j \in 1..Len(options.languages) :
                        /\ line.lg \in {"", options.languages[j]}
                        /\ Len(line.subtokens[options.languages[j]])
                                >= options.min_subtokens}
        IN  /\ Len(candidates) = Cardinality(pairs)
            /\ Len(candidates) \in 0..Len(options.languages)
            /\ \A j \in pairs :
                    CandidateOfPair(
                        candidates[Cardinality({i \in pairs : i <= j})], j)

C14_Witness ==
    /\ Processed /\ line.lg = ""
    /\ options.languages = <<"de", "fr">>
    /\ line.subtokens["de"] = <<>> /\ line.subtokens["fr"] = <<"x">>
    /\ Len(candidates) = 1
    /\ candidates[1].lg = "fr" /\ candidates[1].bloom = "fr.bloom"

(***************************************************************************)
(* C15: compute_ocrqa_slc returns round(IV / (IV + SL + OOV), 2), or 0.0   *)
(* when the denominator is 0, where for n subtokens IV counts those found  *)
(* in the oracle that are longer than one character or privileged single   *)
(* characters, OOV those not found, and SL = max(0, -n/20 +                *)
(* single_letter_cost * k), k counting the found single characters that    *)
(* are not privileged.  Numerator and denominator are taken in twentieths. *)
(***************************************************************************)
C15_SlcFormula ==
    \A v \in ret["slc"] :
        LET S == call.subtoks_list
            n == Len(S)
            oracle == BloomFilter(options.bloomdicts[call.i])
            found == {p \in 1..n : S[p] \in oracle}
            iv == Cardinality({p \in found :
                        Len(S[p]) > 1 \/ S[p] \in {"à", "n", "d", "l"}})
            k == Cardinality(found) - iv
            oov == n - Cardinality(found)
            budget == options.single_letter_cost * k - n
            sl == IF budget > 0 THEN budget ELSE 0
            den == 20 * iv + sl + 20 * oov
        IN  v = IF den = 0 THEN 0 ELSE Round2(20 * iv, den)

C15_Witness ==
    /\ call.subtoks_list = <<"x", "x", "n">> /\ call.i = 1
    /\ options.single_letter_cost = 40
    /\ ret["slc"] = {21}

(***************************************************************************)
(* C16: unk_type_ratio is insensitive to duplicates: on every sequence S   *)
(* it equals unk_ratio of S with its duplicates removed, that is           *)
(* round(|unique subtokens found| / |unique subtokens|, 2).  A sequence    *)
(* "known, known again, unknown" scores 0.67 and 0.5; three known          *)
(* subtokens followed by an unknown one score 0.75 on both.                *)
(***************************************************************************)
RECURSIVE Dedup(_)
Dedup(S) ==
    IF S = <<>> THEN <<>>
    ELSE LET front == Dedup(SubSeq(S, 1, Len(S) - 1))
             last == S[Len(S)]
         IN  IF \E p \in 1..Len(front) : front[p] = last THEN front
             ELSE Append(front, last)

C16_TypeRatioIgnoresDuplicates ==
    LET S == call.subtoks_list
        oracle == BloomFilter(options.bloomdicts[call.i])
        unique == {S[p] : p \in 1..Len(S)}
    IN  /\ \A v \in ret["unk_type_ratio"] :
                /\ v = compute_ocrqa_unk_ratio(Dedup(S), oracle)
                /\ v = IF unique = {} THEN 0
                       ELSE Round2(Cardinality(unique \cap oracle),
                                   Cardinality(unique))
        /\ (S = <<"ab", "ab", "qq">> /\ call.i = 2) =>
                /\ \A v \in ret["unk_ratio"] : v = 67
                /\ \A v \in ret["unk_type_ratio"] : v = 50
        /\ (S = <<"ab", "n", "x", "qq">> /\ call.i = 1) =>
                \A m \in {"unk_ratio", "unk_type_ratio"} :
                    \A v \in ret[m] : v = 75

C16_Witness ==
    /\ call.subtoks_list = <<"ab", "ab", "qq">> /\ call.i = 2
    /\ ret["unk_ratio"] = {67}
    /\ ret["unk_type_ratio"] = {50}

(***************************************************************************)
(* C17: the unknown-token counters are written by slc evaluations only:    *)
(* a processed line adds to the counter of oracle j, for each subtoken,    *)
(* the number of its occurrences not found in oracle j when slc is         *)
(* configured and the line has a candidate scored against oracle j         *)
(* (emitted or discarded by best-selection), and nothing otherwise; no     *)
(* other step changes a counter, and without slc among the methods every   *)
(* counter stays empty.                                                    *)
(***************************************************************************)
C17_UnksWrittenBySlcTrials ==
    [][LET slc == \E m \in 1..Len(options.methods) :
                        options.methods[m] = "slc"
       IN  /\ \A j \in 1..Len(options.bloomdicts) : \A t \in Tokens :
                unks'[options.bloomdicts[j]][t]
                    = unks[options.bloomdicts[j]][t]
                      + (IF /\ line'.id # line.id
                            /\ slc
                            /\ \E c \in 1..Len(candidates') :
                                  candidates'[c].bloom = options.bloomdicts[j]
                         THEN LET toks == line'.subtokens[options.languages[j]]
                              IN  Cardinality(
                                    {p \in 1..Len(toks) :
                                        /\ toks[p] = t
                                        /\ t \notin BloomFilter(
                                                options.bloomdicts[j])})
                         ELSE 0)
           /\ ~slc => \A b \in DOMAIN unks' : \A t \in Tokens :
                            unks'[b][t] = 0]_vars

C17_Witness ==
    /\ Processed /\ BestSelection
    /\ options.methods[1] = "slc"
    /\ Len(candidates) = 2
    /\ results = <<candidates[1]>> /\ results[1].lg = "de"
    /\ line.subtokens["fr"] = <<"x">>
    /\ unks["fr.bloom"]["x"] = 1
    /\ unks["de.bloom"]["x"] = 0

====
